---- MODULE Spec2Model ----
(***************************************************************************)
(* AgroData Nexus dashboard (src/app.py): one Streamlit script that is     *)
(* re-executed top to bottom on every interaction.  A run fetches two      *)
(* time-indexed tables (finance, weather) through two cached functions     *)
(* that fall back to synthetic series, merges and cleans them into         *)
(* df_full, reads three dates from the sidebar, filters df_full by the     *)
(* chosen period, picks the KPI rows for the focus date and renders four   *)
(* metrics.                                                                *)
(*                                                                         *)
(* Time.  A timestamp is an integer ts = day * TicksPerDay + tod, where    *)
(* day counts calendar days (day 0 is a Monday) and tod is the time of     *)
(* day; tod = 0 is midnight.  Live tables are indexed at midnight, the     *)
(* synthetic ones at the time of day of the datetime.now() that built      *)
(* them.                                                                   *)
(*                                                                         *)
(* Values.  Money is in centavos, temperature in whole degrees, rain in    *)
(* millimetres; a missing cell (NaN / None) is the value NaN.              *)
(*                                                                         *)
(* pandas calls are modelled by what pandas does: concat(axis=1) is an     *)
(* outer join on the exact index label and raises on a duplicated label    *)
(* when the two indexes differ, ffill copies the last known value          *)
(* downwards, dropna removes every row holding a missing cell,             *)
(* get_indexer(method='ffill') returns the position of the last label <=   *)
(* the target or -1, and iloc[-1] addresses the last row.  Line 107 is     *)
(* read as the forward fill it asks for, i.e. against a pandas whose       *)
(* fillna accepts method='ffill'.                                          *)
(*                                                                         *)
(* Streamlit.  Every st.* call is a point at which a pending interaction    *)
(* ends the run and starts the next one, so a run can end inside the       *)
(* sidebar, the cards or the tabs with part of them done: the actions of   *)
(* these blocks choose how far the block gets, and a run cut short is at   *)
(* "interrupted".  Whether a cached call that finds its entry shows the    *)
(* spinner, and so is such a point, depends on the Streamlit release;      *)
(* both are allowed.  The interruption is delivered as an exception and    *)
(* consumes the request; the bare except of safe_metric catches it, the    *)
(* card shows "N/A" and the run goes on.  The values of the three date     *)
(* inputs are kept by the session from run to run as long as the bounds    *)
(* of the inputs stay the same, and are the defaults before the user has   *)
(* touched them; what the user has set in the browser reaches the script   *)
(* when the input is next read, also when the interaction that carried it  *)
(* was caught.  plotly and statsmodels are taken to be installed.          *)
(*                                                                         *)
(* Scale.  The synthetic tables have Periods rows (365 in the code), a     *)
(* live weather answer WeatherDays entries (730 days in the code), the     *)
(* default chart period DefaultWindow days (180 in the code) and the       *)
(* date range of an empty table FallbackDays days (30 in the code), in     *)
(* the code's order FallbackDays < DefaultWindow < Periods < WeatherDays;  *)
(* a live finance answer is accepted from MinRows rows on, as in the code. *)
(* The number of runs is not bounded; the user changes a date input at     *)
(* most MaxEdits times, and the wall clock is followed from the opening    *)
(* of the session to midnight of the next day.                             *)
(***************************************************************************)
EXTENDS Integers, Sequences, FiniteSets, TLC

VARIABLES
    pc,               \* position of the current run in the script
    clock,            \* time of day datetime.now() showed when last read
    today,            \* calendar day datetime.now() showed when last read
    widgets,          \* session state of the three date inputs
    pending,          \* interactions the date inputs have not yet seen
    edits,            \* how often the user has changed a date input
    rng,              \* state of numpy's random generator at start-up
    cache_fin,        \* st.cache_data entry of get_finance_history
    cache_clima,      \* st.cache_data entry of get_weather_history
    fin_body_runs,    \* how often the body of get_finance_history ran
    clima_body_runs,  \* how often the body of get_weather_history ran
    live_fin,         \* what yf.download answered to this run
    live_clima,       \* what the weather API answered to this run
    df_fin, status_fin, df_clima, status_clima,
    df_full,          \* merged and cleaned table
    clean_ok,         \* "none" | "done" | "except": how lines 93-113 ended
    toasts,           \* the 'Modo Simulacao' warnings shown in this run
    min_date, max_date, selected_date, start_date_graph, end_date_graph,
    df_filtered, idx_loc, dia_dados, dia_anterior,
    kpi_path,         \* "none" | "try" | "except": which KPI branch ran
    metrics,          \* the four st.metric cards of this run
    shown             \* what this run has put on the page

vars == <<pc, clock, today, widgets, pending, edits, rng, cache_fin,
          cache_clima, fin_body_runs, clima_body_runs, live_fin, live_clima, df_fin, status_fin,
          df_clima, status_clima, df_full, clean_ok, toasts,
          min_date, max_date, selected_date, start_date_graph,
          end_date_graph, df_filtered, idx_loc, dia_dados, dia_anterior,
          kpi_path, metrics, shown>>

-----------------------------------------------------------------------------
(* Bounds of the model *)

\* resolution of the time of day: tod ranges over 0 .. TicksPerDay - 1
TicksPerDay == 2
\* number of rows of a synthetic table (periods=365 in the code, scaled)
Periods == 5
\* number of daily entries a live weather answer covers (730 days, scaled)
WeatherDays == 7
\* number of changes of a date input by the user that are followed
MaxEdits == 1
\* length in days of the default chart period (timedelta(days=180), scaled)
DefaultWindow == 3
\* length in days of the date range of an empty table (timedelta(days=30),
\* scaled)
FallbackDays == 2

(* Program constants *)

\* len(df) < 10 in get_finance_history
MinRows == 10

\* the missing value
NaN == -1
\* value of a variable that holds nothing yet
None == [none |-> TRUE]
\* value of a date variable that holds nothing yet
NoDate == NaN

\* calendar day on which the dashboard is opened: a Sunday
TodaySet == {34}
\* calendar days the wall clock can show while the session is followed: the
\* day it was opened and the Monday after
WallDays == TodaySet \cup {d + 1 : d \in TodaySet}
\* the session is followed until midnight of the day after it was opened
Horizon(day) ==
    TicksPerDay * (CHOOSE d \in WallDays : d >= day /\ d + 1 \notin WallDays)
\* what datetime.now() can show when the clock last showed day at time tod:
\* that instant or a later one
Now(day, tod) ==
    { [day |-> i \div TicksPerDay, tod |-> i % TicksPerDay] :
        i \in (day * TicksPerDay + tod)..Horizon(day) }
\* seeds numpy's generator may start from
Seeds == {0}

-----------------------------------------------------------------------------
(* Calendar helpers *)

Date(ts) == ts \div TicksPerDay
\* pd.Timestamp(date) and pd.to_datetime('YYYY-MM-DD'): midnight of the day
Timestamp(d) == d * TicksPerDay

IsBusinessDay(d) == (d % 7) < 5
\* BusinessDay.rollback: a weekend day goes back to the Friday before it
RollbackB(d) ==
    IF (d % 7) = 5 THEN d - 1 ELSE IF (d % 7) = 6 THEN d - 2 ELSE d
\* position of a business day among all business days, and its inverse
BOrdinal(d) == 5 * (d \div 7) + (d % 7)
BDay(b) == 7 * (b \div 5) + (b % 5)

\* pd.date_range(end=now, periods=n, freq='D'): n stamps one day apart,
\* ending at now and keeping its time of day
DateRangeD(day, tod, n) ==
    [i \in 1..n |-> (day - (n - i)) * TicksPerDay + tod]
\* pd.date_range(end=now, periods=n, freq='B'): n business days ending at
\* now rolled back to a business day, keeping its time of day
DateRangeB(day, tod, n) ==
    [i \in 1..n |-> BDay(BOrdinal(RollbackB(day)) - (n - i)) * TicksPerDay + tod]

Min(a, b) == IF a < b THEN a ELSE b

-----------------------------------------------------------------------------
(* Random draws of numpy, as a function of a seed and the position *)

Noise(seed, i, amp) == (((i * (seed + 2) + (i \div 2)) % 3) - 1) * amp
RECURSIVE CumNoise(_, _, _)
CumNoise(seed, i, amp) ==
    IF i = 0 THEN 0 ELSE CumNoise(seed, i - 1, amp) + Noise(seed, i, amp)
RainChoices == <<0, 0, 0, 0, 10, 25, 50>>
RainDraw(seed, i) == RainChoices[((seed * 4 + i * 5) % 7) + 1]
\* 5 * sin(linspace(0, 3.14, n)): zero at both ends, five in the middle
SinBump(i, n) == IF n < 2 THEN 0 ELSE (10 * Min(i - 1, n - i)) \div (n - 1)

\* Boi_Gordo = JBS * 8.5 + 50; a missing JBS gives a missing Boi_Gordo
BoiGordo(jbs) == IF jbs = NaN THEN NaN ELSE (17 * jbs) \div 2 + 5000

gerar_dados_financeiros_fake(day, tod, seed) ==
    LET datas == DateRangeB(day, tod, Periods)
        n == Len(datas)
    IN [i \in 1..n |->
         LET jbs == 2500 + CumNoise(seed + 1, i, 50)
         IN [ts |-> datas[i],
             Dolar |-> 500 + CumNoise(seed, i, 5),
             JBS |-> jbs,
             Boi_Gordo |-> BoiGordo(jbs) + Noise(seed + 2, i, 200)]]

gerar_dados_clima_fake(day, tod, seed) ==
    LET datas == DateRangeD(day, tod, Periods)
        n == Len(datas)
    IN [i \in 1..n |->
         [ts |-> datas[i],
          Temp_Max |-> 30 + SinBump(i, n) + Noise(seed, i, 2),
          Chuva_mm |-> RainDraw(seed, i)]]

-----------------------------------------------------------------------------
(* What the live sources can answer *)

\* rows of yf.download(...)['Close']: the last n business days up to day,
\* midnight labels, one column per ticker; pat says which cells are missing
LiveFinanceRows(day, n, pat) ==
    LET datas == DateRangeB(day, 0, n)
    IN [i \in 1..n |->
         [ts |-> datas[i],
          c1 |-> IF pat = "gaps" /\ i = n - 2 THEN NaN ELSE 520 + 3 * i,
          c2 |-> IF pat = "gaps" /\ (i = 1 \/ i = n) THEN NaN
                 ELSE 2400 + 20 * i]]

FinanceResponses(day) ==
    { [kind |-> "error"] } \cup
    { [kind |-> "table", ncols |-> 2, rows |-> << >>],
      [kind |-> "table", ncols |-> 2,
       rows |-> LiveFinanceRows(day, MinRows - 1, "full")],
      [kind |-> "table", ncols |-> 2,
       rows |-> LiveFinanceRows(day, MinRows, "full")],
      [kind |-> "table", ncols |-> 2,
       rows |-> LiveFinanceRows(day, MinRows, "gaps")],
      [kind |-> "table", ncols |-> 3,
       rows |-> LiveFinanceRows(day, MinRows, "full")] }

\* the 'daily' object of the weather archive: three parallel lists
LiveDaily(day, n, pat) ==
    [time |-> [i \in 1..n |->
                 IF pat = "dup" /\ i = n /\ n > 1 THEN day - 1
                 ELSE day - (n - i)],
     temperature_2m_max |->
         [i \in 1..(IF pat = "ragged" THEN n - 1 ELSE n) |->
            IF pat = "nulls" /\ (i = 1 \/ i >= n - 1) THEN NaN ELSE 28 + (i % 5)],
     precipitation_sum |->
         [i \in 1..n |->
            IF pat = "nulls" /\ (i = 3 \/ i >= n - 1) THEN NaN
            ELSE IF (i % 4) = 0 THEN 12 ELSE 0]]

WeatherResponses(day) ==
    { [kind |-> "error"], [kind |-> "json", has_daily |-> FALSE] } \cup
    { [kind |-> "json", has_daily |-> TRUE, daily |-> LiveDaily(day, n, pat)] :
        n \in {WeatherDays}, pat \in {"full", "nulls", "dup", "ragged"} } \cup
    { [kind |-> "json", has_daily |-> TRUE, daily |-> LiveDaily(day, n, "full")] :
        n \in {0, DefaultWindow} }

-----------------------------------------------------------------------------
(* The two fetch functions, lines 51-87 *)

\* the row-count test of line 56 off by one
FinanceTryRaisesOffByOne(resp) ==
    \/ resp.kind = "error"
    \/ Len(resp.rows) = 0
    \/ Len(resp.rows) < MinRows - 1
    \/ resp.ncols # 2

\* lines 55-56, 58: what makes the try block of get_finance_history raise
FinanceTryRaises(resp) ==
    \/ resp.kind = "error"
    \/ Len(resp.rows) = 0
    \/ Len(resp.rows) < MinRows
    \/ resp.ncols # 2

\* lines 58-60: the two ticker columns renamed, Boi_Gordo derived from JBS
LiveFinanceTable(resp) ==
    [i \in 1..Len(resp.rows) |->
       [ts |-> resp.rows[i].ts,
        Dolar |-> resp.rows[i].c1,
        JBS |-> resp.rows[i].c2,
        Boi_Gordo |-> BoiGordo(resp.rows[i].c2)]]

get_finance_history(resp, day, tod, seed) ==
    IF FinanceTryRaises(resp)
    THEN [raised |-> FALSE, status |-> FALSE,
          df |-> gerar_dados_financeiros_fake(day, tod, seed)]
    ELSE [raised |-> FALSE, status |-> TRUE, df |-> LiveFinanceTable(resp)]

\* lines 74-84: what makes the try block of get_weather_history raise;
\* pd.DataFrame raises on lists of unequal length
WeatherTryRaises(resp) ==
    \/ resp.kind = "error"
    \/ ~resp.has_daily
    \/ Len(resp.daily.temperature_2m_max) # Len(resp.daily.time)
    \/ Len(resp.daily.precipitation_sum) # Len(resp.daily.time)

\* lines 78-84: one row per entry of 'time', labelled by its midnight
LiveWeatherTable(resp) ==
    [i \in 1..Len(resp.daily.time) |->
       [ts |-> Timestamp(resp.daily.time[i]),
        Temp_Max |-> resp.daily.temperature_2m_max[i],
        Chuva_mm |-> resp.daily.precipitation_sum[i]]]

get_weather_history(resp, day, tod, seed) ==
    IF WeatherTryRaises(resp)
    THEN [raised |-> FALSE, status |-> FALSE,
          df |-> gerar_dados_clima_fake(day, tod, seed)]
    ELSE [raised |-> FALSE, status |-> TRUE, df |-> LiveWeatherTable(resp)]

-----------------------------------------------------------------------------
(* pandas operations used by the load-and-treat block, lines 93-113 *)

Index(t) == [i \in 1..Len(t) |-> t[i].ts]
Labels(t) == {t[i].ts : i \in 1..Len(t)}
HasDuplicates(t) == \E i, j \in 1..Len(t) : i < j /\ t[i].ts = t[j].ts
RowAt(t, x) == t[CHOOSE i \in 1..Len(t) : t[i].ts = x]

\* the row of the outer join for label x
JoinedRow(a, b, x) ==
    [ts |-> x,
     Dolar |-> IF x \in Labels(a) THEN RowAt(a, x).Dolar ELSE NaN,
     JBS |-> IF x \in Labels(a) THEN RowAt(a, x).JBS ELSE NaN,
     Boi_Gordo |-> IF x \in Labels(a) THEN RowAt(a, x).Boi_Gordo ELSE NaN,
     Temp_Max |-> IF x \in Labels(b) THEN RowAt(b, x).Temp_Max ELSE NaN,
     Chuva_mm |-> IF x \in Labels(b) THEN RowAt(b, x).Chuva_mm ELSE NaN]

\* pd.concat([a, b], axis=1): equal indexes are joined position by
\* position; otherwise both are reindexed to the union of the labels, which
\* raises InvalidIndexError when an index holds a label twice
concat(a, b) ==
    IF Index(a) = Index(b)
    THEN [raised |-> FALSE,
          rows |-> [i \in 1..Len(a) |->
                      [ts |-> a[i].ts, Dolar |-> a[i].Dolar, JBS |-> a[i].JBS,
                       Boi_Gordo |-> a[i].Boi_Gordo,
                       Temp_Max |-> b[i].Temp_Max, Chuva_mm |-> b[i].Chuva_mm]]]
    ELSE IF HasDuplicates(a) \/ HasDuplicates(b)
    THEN [raised |-> TRUE, rows |-> << >>]
    ELSE LET idx == Index(a) \o SelectSeq(Index(b), LAMBDA x : x \notin Labels(a))
         IN [raised |-> FALSE,
             rows |-> [i \in 1..Len(idx) |-> JoinedRow(a, b, idx[i])]]

\* insert row r into the sorted sequence s, after the rows with an equal label
RECURSIVE InsertSorted(_, _)
InsertSorted(s, r) ==
    IF s = << >> THEN <<r>>
    ELSE IF s[Len(s)].ts <= r.ts THEN Append(s, r)
    ELSE Append(InsertSorted(SubSeq(s, 1, Len(s) - 1), r), s[Len(s)])

\* DataFrame.sort_index(): rows in ascending order of their label
RECURSIVE sort_index(_)
sort_index(t) ==
    IF t = << >> THEN << >>
    ELSE InsertSorted(sort_index(SubSeq(t, 1, Len(t) - 1)), t[Len(t)])

\* forward-fill followed by back-fill: a cell with no known value above it
\* takes the next known value below it
FfillThenBfill(t, col) ==
    [i \in 1..Len(t) |->
       LET above == {k \in 1..i : t[k][col] # NaN}
           below == {k \in i..Len(t) : t[k][col] # NaN}
       IN [t[i] EXCEPT ![col] =
             IF above # {}
             THEN t[CHOOSE k \in above : \A m \in above : m <= k][col]
             ELSE IF below # {}
             THEN t[CHOOSE k \in below : \A m \in below : k <= m][col]
             ELSE NaN]]

\* Series.ffill() on column col: a missing cell takes the last known value
\* above it, and stays missing when there is none
ffill(t, col) ==
    [i \in 1..Len(t) |->
       LET known == {k \in 1..i : t[k][col] # NaN}
       IN [t[i] EXCEPT ![col] =
             IF known = {} THEN NaN
             ELSE t[CHOOSE k \in known : \A m \in known : m <= k][col]]]

\* the rain column forward-filled instead of zero-filled
FillnaPropagate(t, col) == ffill(t, col)

\* Series.fillna(0) on column col
fillna0(t, col) ==
    [i \in 1..Len(t) |->
       [t[i] EXCEPT ![col] = IF t[i][col] = NaN THEN 0 ELSE t[i][col]]]

Columns(r) == DOMAIN r \ {"ts"}
HasMissing(r) == \E c \in Columns(r) : r[c] = NaN

\* DataFrame.dropna(): only the rows without a missing cell
dropna(t) == SelectSeq(t, LAMBDA r : ~HasMissing(r))

\* lines 93-113: the cleaned outer join, or a copy of the finance table
\* when anything in the try block raised
LoadAndTreat(fin, clima) ==
    LET c == concat(fin, clima)
    IN IF c.raised
       THEN [how |-> "except", df |-> fin]
       ELSE LET s1 == sort_index(c.rows)
                s2 == ffill(ffill(ffill(s1, "Dolar"), "JBS"), "Boi_Gordo")
                s3 == ffill(fillna0(s2, "Chuva_mm"), "Temp_Max")
            IN [how |-> "done", df |-> dropna(s3)]

-----------------------------------------------------------------------------
(* Sidebar, lines 117-155 *)

MaxLabel(t) == CHOOSE x \in Labels(t) : \A y \in Labels(t) : y <= x
MinLabel(t) == CHOOSE x \in Labels(t) : \A y \in Labels(t) : x <= y

\* lines 121-122: one warning per source whose status flag is False
StatusToasts(sf, sc) ==
    (IF ~sf THEN {"Financeiro: Modo Simulacao"} ELSE {}) \cup
    (IF ~sc THEN {"Clima: Modo Simulacao"} ELSE {})

\* lines 127-133: calendar dates of the first and last label of df_full,
\* or the FallbackDays days up to the day datetime.now() shows when df_full
\* is empty
DateBounds(t, day) ==
    IF Len(t) # 0
    THEN [max_date |-> Date(MaxLabel(t)), min_date |-> Date(MinLabel(t))]
    ELSE [max_date |-> day, min_date |-> day - FallbackDays]

\* lines 147-149: the last DefaultWindow days, or from min_date when the
\* table is shorter
default_start_value(lo, hi) ==
    IF hi - DefaultWindow < lo THEN lo ELSE hi - DefaultWindow

\* the three date inputs, in the order of lines 137, 153 and 155
DateInputNames == {"selected", "start", "end"}

\* the session before any date input was rendered
NoWidgets ==
    [lo |-> NoDate, hi |-> NoDate,
     selected |-> NoDate, start |-> NoDate, end |-> NoDate]

\* lines 137, 153, 155: the value a date input has before the user touches it
DefaultValue(k, lo, hi) ==
    IF k = "start" THEN default_start_value(lo, hi) ELSE hi

\* the session values that belong to the inputs of this run: an input with
\* another default, min_value or max_value is a new widget
KnownWidgets(w, lo, hi) ==
    IF w.lo = lo /\ w.hi = hi THEN w
    ELSE [NoWidgets EXCEPT !.lo = lo, !.hi = hi]

\* how far the sidebar gets before a pending interaction ends the run:
\* 1 = to line 122 (first warning shown), 2 = to line 124 (both warnings),
\* 3 = to line 137 (bounds), 4 = to line 153 (focus date read), 5 = to line
\* 155 (start read), 6 = to its end
SidebarStages == 1..6
RenderedAt(stage) ==
    (IF stage >= 4 THEN {"selected"} ELSE {}) \cup
    (IF stage >= 5 THEN {"start"} ELSE {}) \cup
    (IF stage >= 6 THEN {"end"} ELSE {})

\* what the rendered date inputs can return and leave in the session: an
\* input the session does not know returns its default; one it knows
\* returns the session's value, or any date between min_value and max_value
\* that the user has set since, for at most budget inputs
DateInputs(known, rendered, budget) ==
    LET editable == {k \in rendered : known[k] # NoDate}
        dates == (known.lo)..(known.hi)
    IN { [k \in DOMAIN known |->
            IF k \in DOMAIN v THEN v[k]
            ELSE IF k \in rendered /\ known[k] = NoDate
                 THEN DefaultValue(k, known.lo, known.hi)
                 ELSE known[k]] :
         v \in UNION { {f \in [F -> dates] : \A k \in F : f[k] # known[k]} :
                       F \in {S \in SUBSET editable : Cardinality(S) <= budget} } }

\* the interactions that can each have changed a date input and that the
\* script has not seen, n of them outstanding: as many as changes are still
\* followed
Unseen(n, done) == Min(MaxEdits - done, n)

\* the number of inputs whose value the user has changed
Changed(known, w) ==
    Cardinality({k \in DateInputNames : known[k] # NoDate /\ w[k] # known[k]})

-----------------------------------------------------------------------------
(* Period filter, lines 159-165 *)

\* the mask with the end date excluded
InPeriodExclusive(r, start, end) == Date(r.ts) >= start /\ Date(r.ts) < end

\* line 164: mask on the calendar date of the label
InPeriod(r, start, end) == Date(r.ts) >= start /\ Date(r.ts) <= end
FilterRows(t, start, end) == SelectSeq(t, LAMBDA r : InPeriod(r, start, end))

-----------------------------------------------------------------------------
(* KPI rows, lines 167-180 *)

IsMonotonic(t) == \A i \in 1..(Len(t) - 1) : t[i].ts <= t[i + 1].ts

\* Index.get_indexer([target], method='ffill')[0]: the zero-based position
\* of the last label <= target, -1 when there is none
get_indexer_ffill(t, target) ==
    LET at == {i \in 1..Len(t) : t[i].ts <= target}
    IN IF at = {} THEN 0 - 1
       ELSE (CHOOSE i \in at : \A j \in at : j <= i) - 1

\* DataFrame.iloc[k] with a zero-based k; a negative k counts from the end
IlocPos(t, k) == IF k < 0 THEN Len(t) + k + 1 ELSE k + 1
IlocRaises(t, k) == IlocPos(t, k) < 1 \/ IlocPos(t, k) > Len(t)
iloc(t, k) == t[IlocPos(t, k)]

\* lines 168-180.  The try block raises when get_indexer refuses the index
\* (duplicated or unsorted labels) or iloc is out of bounds; the except
\* block raises, uncaught, when df_full has fewer than two rows
KpiRows(t, selected) ==
    LET ts_selected == Timestamp(selected)
        k == get_indexer_ffill(t, ts_selected)
        tryRaises == \/ HasDuplicates(t)
                     \/ ~IsMonotonic(t)
                     \/ IlocRaises(t, k)
    IN IF ~tryRaises
       THEN [path |-> "try", raised |-> FALSE, idx_loc |-> k,
             dia_dados |-> iloc(t, k),
             dia_anterior |-> IF k > 0 THEN iloc(t, k - 1) ELSE iloc(t, k)]
       ELSE IF IlocRaises(t, 0 - 1) \/ IlocRaises(t, 0 - 2)
       THEN [path |-> "except", raised |-> TRUE, idx_loc |-> k,
             dia_dados |-> None, dia_anterior |-> None]
       ELSE [path |-> "except", raised |-> FALSE, idx_loc |-> k,
             dia_dados |-> iloc(t, 0 - 1), dia_anterior |-> iloc(t, 0 - 2)]

-----------------------------------------------------------------------------
(* Metric cards, lines 188-201 *)

\* float(v) succeeds on every number, the missing value included
Floatable(v) == v \in Int

\* lines 188-194: value and delta, or "N/A" and "0.00" when the try block
\* raises; a missing value is a float and is formatted as "nan".  The try
\* block raises when float() does, and when its st.metric call is the point
\* at which a pending interaction is delivered (caught): the bare except
\* catches that exception too
safe_metric(label, current, prev, caught) ==
    IF ~caught /\ Floatable(current) /\ Floatable(prev)
    THEN [label |-> label,
          value |-> IF current = NaN THEN "nan" ELSE current,
          delta |-> IF current = NaN \/ prev = NaN THEN "nan"
                    ELSE current - prev]
    ELSE [label |-> label, value |-> "N/A", delta |-> "0.00"]

\* line 200: Series.get('Chuva_mm', 0)
GetChuva(r) == IF "Chuva_mm" \in DOMAIN r THEN r.Chuva_mm ELSE 0

\* lines 196-201: the four cards; swallow is the set of cards during whose
\* try block an interaction arrived
RenderMetrics(dd, da, swallow) ==
    << safe_metric("Dolar", dd.Dolar, da.Dolar, 1 \in swallow),
       safe_metric("Boi_Gordo", dd.Boi_Gordo, da.Boi_Gordo, 2 \in swallow),
       safe_metric("JBS", dd.JBS, da.JBS, 3 \in swallow),
       [label |-> "Chuva_mm", value |-> GetChuva(dd)] >>

\* how the cards of lines 186-201 can go.  cut is the number of cards on the
\* page when the run ends there (4 when it does not).  A run ends before
\* any card at line 186, before the fourth at line 201, and before one of
\* the first three only at the st.metric call of its except block, that
\* is after its try block has caught an interaction
CardOutcomes ==
    { o \in [cut : 0..4, swallow : SUBSET {1, 2, 3}] :
        /\ o.cut = 0 => o.swallow \subseteq {1}
        /\ o.cut \in {1, 2} => /\ (o.cut + 1) \in o.swallow
                               /\ o.swallow \subseteq 1..(o.cut + 1) }

\* lines 233-273 read the weather columns of df_filtered, which the table
\* has when the cleaning block completed and lacks when it is the copy of
\* the finance table
HasWeatherColumns(how) == how = "done"

\* lines 228-233: the three lines of the period summary, written for a
\* period that holds rows
Summary(t) ==
    IF Len(t) # 0 THEN <<"media_boi", "max_dolar", "dias_chuva">> ELSE << >>

\* lines 224-286: what the tabs put on the page, in the order of the script
\* (headings and captions are not followed).  On a table without the
\* weather columns the third summary line raises KeyError (line 233) after
\* the first two are on the page, and when there is no summary the scatter
\* plot raises (line 261)
TabItems(how, t) ==
    IF HasWeatherColumns(how)
    THEN <<"chart">> \o Summary(t) \o
         <<"radio", "boxplot", "scatter", "heatmap", "download_fin",
           "download_clima">>
    ELSE IF Len(t) # 0 THEN <<"chart", "media_boi", "max_dolar">>
    ELSE <<"chart", "radio", "boxplot">>

\* how the tabs can go: the number of items on the page and how the run
\* ends.  An interaction can end the run before any item; after the last
\* one only when st.* calls follow it, which is so before the scatter plot
\* raises (lines 255-259) and not before the summary does
TabOutcomes(how, t) ==
    LET items == TabItems(how, t)
        raises == ~HasWeatherColumns(how)
    IN { [n |-> j, end |-> "interrupted"] : j \in 0..(Len(items) - 1) } \cup
       { [n |-> Len(items), end |-> IF raises THEN "crashed" ELSE "done"] } \cup
       (IF raises /\ Len(t) = 0
        THEN { [n |-> Len(items), end |-> "interrupted"] } ELSE {})

-----------------------------------------------------------------------------
(* The script as a state machine *)

Init ==
    /\ pc = "start"
    /\ clock = 0
    /\ today \in TodaySet
    /\ widgets = NoWidgets
    /\ pending = 0
    /\ edits = 0
    /\ rng \in Seeds
    /\ cache_fin = None
    /\ cache_clima = None
    /\ fin_body_runs = 0
    /\ clima_body_runs = 0
    /\ live_fin = None
    /\ live_clima = None
    /\ df_fin = << >>
    /\ status_fin = FALSE
    /\ df_clima = << >>
    /\ status_clima = FALSE
    /\ df_full = << >>
    /\ clean_ok = "none"
    /\ toasts = {}
    /\ min_date = NoDate
    /\ max_date = NoDate
    /\ selected_date = NoDate
    /\ start_date_graph = NoDate
    /\ end_date_graph = NoDate
    /\ df_filtered = << >>
    /\ idx_loc = 0
    /\ dia_dados = None
    /\ dia_anterior = None
    /\ kpi_path = "none"
    /\ metrics = << >>
    /\ shown = {}

\* the time of day the program has seen after a fetch body ran at now: the
\* synthetic generators stamp their rows with it, a live table shows the day
\* only
Observed(status, now) ==
    IF ~status THEN now.tod ELSE IF now.day = today THEN clock ELSE 0

uiVars == <<toasts, min_date, max_date, selected_date, start_date_graph,
            end_date_graph>>
kpiVars == <<idx_loc, dia_dados, dia_anterior, kpi_path>>
envVars == <<today, rng>>
sessionVars == <<widgets, pending, edits>>
finVars == <<cache_fin, fin_body_runs, live_fin, df_fin, status_fin>>
climaVars == <<cache_clima, clima_body_runs, live_clima, df_clima, status_clima>>
mergeVars == <<df_full, clean_ok>>

\* get_finance_history without the cache decorator: the body runs on every
\* call
FetchFinanceUncached ==
    /\ pc = "start"
    /\ \E now \in Now(today, clock) : \E resp \in FinanceResponses(now.day) :
         LET r == get_finance_history(resp, now.day, now.tod, rng)
         IN /\ live_fin' = resp
            /\ fin_body_runs' = fin_body_runs + 1
            /\ today' = now.day
            /\ clock' = Observed(r.status, now)
            /\ cache_fin' = [df |-> r.df, status |-> r.status]
            /\ df_fin' = r.df
            /\ status_fin' = r.status
            /\ pc' = "fin"
    /\ UNCHANGED <<rng, sessionVars, climaVars, mergeVars, uiVars,
                   df_filtered, kpiVars, metrics, shown>>

\* line 90: the cached call of get_finance_history.  Without an entry the
\* body runs against whatever the live source
\* answers and its result is stored; with an entry the stored result is
\* returned
FetchFinance ==
    /\ pc = "start"
    /\ IF cache_fin = None
       THEN \E now \in Now(today, clock) : \E resp \in FinanceResponses(now.day) :
              LET r == get_finance_history(resp, now.day, now.tod, rng)
              IN /\ live_fin' = resp
                 /\ fin_body_runs' = fin_body_runs + 1
                 /\ today' = now.day
                 /\ clock' = Observed(r.status, now)
                 /\ IF r.raised
                    THEN /\ pc' = "crashed"
                         /\ UNCHANGED <<cache_fin, df_fin, status_fin>>
                    ELSE /\ cache_fin' = [df |-> r.df, status |-> r.status]
                         /\ df_fin' = r.df
                         /\ status_fin' = r.status
                         /\ pc' = "fin"
       ELSE /\ df_fin' = cache_fin.df
            /\ status_fin' = cache_fin.status
            /\ pc' = "fin"
            /\ UNCHANGED <<cache_fin, fin_body_runs, live_fin, clock, today>>
    /\ UNCHANGED <<rng, sessionVars, climaVars, mergeVars, uiVars,
                   df_filtered, kpiVars, metrics, shown>>

\* line 91: the cached call of get_weather_history
FetchWeather ==
    /\ pc = "fin"
    /\ IF cache_clima = None
       THEN \E now \in Now(today, clock) : \E resp \in WeatherResponses(now.day) :
              LET r == get_weather_history(resp, now.day, now.tod, rng + 1)
              IN /\ live_clima' = resp
                 /\ clima_body_runs' = clima_body_runs + 1
                 /\ today' = now.day
                 /\ clock' = Observed(r.status, now)
                 /\ IF r.raised
                    THEN /\ pc' = "crashed"
                         /\ UNCHANGED <<cache_clima, df_clima, status_clima>>
                    ELSE /\ cache_clima' = [df |-> r.df, status |-> r.status]
                         /\ df_clima' = r.df
                         /\ status_clima' = r.status
                         /\ pc' = "loaded"
       ELSE /\ df_clima' = cache_clima.df
            /\ status_clima' = cache_clima.status
            /\ pc' = "loaded"
            /\ UNCHANGED <<cache_clima, clima_body_runs, live_clima, clock,
                           today>>
    /\ UNCHANGED <<rng, sessionVars, finVars, mergeVars, uiVars,
                   df_filtered, kpiVars, metrics, shown>>

\* lines 93-113
Merge ==
    /\ pc = "loaded"
    /\ LET m == LoadAndTreat(df_fin, df_clima)
       IN /\ df_full' = m.df
          /\ clean_ok' = m.how
    /\ pc' = "merged"
    /\ UNCHANGED <<clock, envVars, sessionVars, finVars, climaVars,
                   uiVars, df_filtered, kpiVars, metrics, shown>>

\* lines 117-155: the warnings, the date bounds and the three date inputs,
\* up to the st.* call at which a pending interaction ends the run or to
\* the end of the block.  datetime.now() is read when line 132 is reached
Sidebar ==
    /\ pc = "merged"
    /\ \E stage \in SidebarStages :
       \E now \in IF stage >= 3 /\ Len(df_full) = 0 THEN Now(today, clock)
                  ELSE {[day |-> today, tod |-> clock]} :
         LET b == DateBounds(df_full, now.day)
             known == KnownWidgets(widgets, b.min_date, b.max_date)
             rendered == RenderedAt(stage)
         IN /\ toasts' = StatusToasts(status_fin, stage = 1 \/ status_clima)
            /\ today' = now.day
            /\ clock' = now.tod
            /\ min_date' = IF stage >= 3 THEN b.min_date ELSE NoDate
            /\ max_date' = IF stage >= 3 THEN b.max_date ELSE NoDate
            /\ \E w \in DateInputs(known, rendered, pending) :
                 /\ widgets' = IF rendered = {} THEN widgets ELSE w
                 /\ selected_date' =
                      IF "selected" \in rendered THEN w.selected ELSE NoDate
                 /\ start_date_graph' =
                      IF "start" \in rendered THEN w.start ELSE NoDate
                 /\ end_date_graph' =
                      IF "end" \in rendered THEN w.end ELSE NoDate
                 /\ edits' = edits + Changed(known, w)
                 /\ pending' = IF stage = 6 THEN 0
                               ELSE pending - Changed(known, w)
            /\ pc' = IF stage = 6 THEN "sidebar" ELSE "interrupted"
    /\ UNCHANGED <<rng, finVars, climaVars, mergeVars,
                   df_filtered, kpiVars, metrics, shown>>

\* lines 159-165: st.error and st.stop on an inverted period, else the mask
FilterPeriod ==
    /\ pc = "sidebar"
    /\ IF start_date_graph > end_date_graph
       THEN /\ shown' = shown \cup {"error"}
            /\ pc' = "stopped"
            /\ UNCHANGED df_filtered
       ELSE /\ df_filtered' = FilterRows(df_full, start_date_graph, end_date_graph)
            /\ pc' = "filtered"
            /\ UNCHANGED shown
    /\ UNCHANGED <<clock, envVars, sessionVars, finVars, climaVars,
                   mergeVars, uiVars, kpiVars, metrics>>

\* lines 167-180
KpiCalculation ==
    /\ pc = "filtered"
    /\ LET k == KpiRows(df_full, selected_date)
       IN /\ idx_loc' = k.idx_loc
          /\ kpi_path' = k.path
          /\ dia_dados' = k.dia_dados
          /\ dia_anterior' = k.dia_anterior
          /\ pc' = IF k.raised THEN "crashed" ELSE "kpi"
    /\ UNCHANGED <<clock, envVars, sessionVars, finVars, climaVars,
                   mergeVars, uiVars, df_filtered, metrics, shown>>

\* lines 183-201: the title and the metric cards, up to the st.* call at
\* which a pending interaction ends the run or to the fourth card.  An
\* interaction that arrives while a safe_metric call is in its try block is
\* caught there: the card shows "N/A" and the run goes on, and what the
\* user has set waits for the next reading of the date inputs
Dashboard ==
    /\ pc = "kpi"
    /\ \E o \in CardOutcomes :
         /\ metrics' = SubSeq(RenderMetrics(dia_dados, dia_anterior, o.swallow),
                              1, o.cut)
         /\ shown' = shown \cup {"title"} \cup
                       (IF o.cut = 4 THEN {"metrics"} ELSE {})
         /\ pending' = Unseen(pending + Cardinality(o.swallow), edits)
         /\ pc' = IF o.cut = 4 THEN "metrics" ELSE "interrupted"
    /\ UNCHANGED <<clock, envVars, widgets, edits, finVars, climaVars,
                   mergeVars, uiVars, df_filtered, kpiVars>>

\* lines 203-286: the trend chart, the period summary, the boxplot with its
\* radio, scatter, heatmap and the two download buttons, up to the st.*
\* call at which a pending interaction ends the run, to the line that
\* raises or to the end of the script
Tabs ==
    /\ pc = "metrics"
    /\ \E o \in TabOutcomes(clean_ok, df_filtered) :
         LET items == TabItems(clean_ok, df_filtered)
         IN /\ shown' = shown \cup {items[i] : i \in 1..o.n}
            /\ pc' = o.end
    /\ UNCHANGED <<clock, envVars, sessionVars, finVars, climaVars,
                   mergeVars, uiVars, df_filtered, kpiVars, metrics>>

\* the positions between two blocks at which the run in progress gives way
\* to a pending interaction: lines 12-14, the spinner of a cached call
\* (before and after it), line 118, st.error (line 160), the title (line
\* 183) and line 203.  The st.* calls inside the sidebar, the cards and the
\* tabs are the cuts of these blocks
YieldPoint ==
    \/ pc \in {"start", "fin", "loaded", "merged", "kpi", "metrics"}
    \/ pc = "sidebar" /\ start_date_graph > end_date_graph

\* an interaction re-executes the script from the top, after the run has
\* ended or been cut, or at its next yield point; only the cache, the
\* session's widget values and the wall clock survive.  What the
\* interaction has changed is seen when the date inputs are read
Rerun ==
    /\ pc \in {"done", "stopped", "crashed", "interrupted"} \/ YieldPoint
    /\ pending' = Unseen(pending + 1, edits)
    /\ pc' = "start"
    /\ live_fin' = None
    /\ live_clima' = None
    /\ df_fin' = << >>
    /\ status_fin' = FALSE
    /\ df_clima' = << >>
    /\ status_clima' = FALSE
    /\ df_full' = << >>
    /\ clean_ok' = "none"
    /\ toasts' = {}
    /\ min_date' = NoDate
    /\ max_date' = NoDate
    /\ selected_date' = NoDate
    /\ start_date_graph' = NoDate
    /\ end_date_graph' = NoDate
    /\ df_filtered' = << >>
    /\ idx_loc' = 0
    /\ dia_dados' = None
    /\ dia_anterior' = None
    /\ kpi_path' = "none"
    /\ metrics' = << >>
    /\ shown' = {}
    /\ UNCHANGED <<clock, today, rng, widgets, edits, cache_fin, cache_clima,
                   fin_body_runs, clima_body_runs>>

Next ==
    \/ FetchFinance
    \/ FetchWeather
    \/ Merge
    \/ Sidebar
    \/ FilterPeriod
    \/ KpiCalculation
    \/ Dashboard
    \/ Tabs
    \/ Rerun

Spec == Init /\ [][Next]_vars

-----------------------------------------------------------------------------
(* Properties *)

\* the run has passed line 133
SidebarDone == min_date # NoDate

\* the live finance source delivered a table the function accepts
FinanceUsable(resp) ==
    /\ resp.kind = "table"
    /\ resp.ncols = 2
    /\ Len(resp.rows) >= MinRows
\* the live weather source delivered a 'daily' object with parallel lists
WeatherUsable(resp) ==
    /\ resp.kind = "json"
    /\ resp.has_daily
    /\ Len(resp.daily.temperature_2m_max) = Len(resp.daily.time)
    /\ Len(resp.daily.precipitation_sum) = Len(resp.daily.time)

IsSyntheticFinance(t) ==
    \E day \in WallDays, tod \in 0..(TicksPerDay - 1), s \in Seeds :
        t = gerar_dados_financeiros_fake(day, tod, s)
IsSyntheticWeather(t) ==
    \E day \in WallDays, tod \in 0..(TicksPerDay - 1), s \in Seeds :
        t = gerar_dados_clima_fake(day, tod, s + 1)

\* C1: the two fetch functions always return.  In the run in which its body
\* ran, each returns the live table with status True exactly when the live
\* source delivered usable data, and a synthetic table of Periods rows with
\* status False otherwise; the flag is False iff the table is synthetic, and
\* the sidebar shows a source's 'Modo Simulacao' warning iff its flag is
\* False.
C1_FetchContract ==
    /\ fin_body_runs > 0 => cache_fin # None
    /\ clima_body_runs > 0 => cache_clima # None
    /\ live_fin # None =>
         /\ status_fin = FinanceUsable(live_fin)
         /\ status_fin => df_fin = LiveFinanceTable(live_fin)
         /\ ~status_fin => Len(df_fin) = Periods
         /\ pc = "fin" => status_fin = ~IsSyntheticFinance(df_fin)
    /\ live_clima # None =>
         /\ status_clima = WeatherUsable(live_clima)
         /\ status_clima => df_clima = LiveWeatherTable(live_clima)
         /\ ~status_clima => Len(df_clima) = Periods
         /\ pc = "loaded" => status_clima = ~IsSyntheticWeather(df_clima)
    /\ SidebarDone =>
         /\ ("Financeiro: Modo Simulacao" \in toasts) = ~status_fin
         /\ ("Clima: Modo Simulacao" \in toasts) = ~status_clima
         /\ status_fin = cache_fin.status
         /\ status_clima = cache_clima.status

\* a run in which finance answered one row too few and weather answered well
C1_Witness ==
    /\ SidebarDone
    /\ live_fin # None
    /\ live_fin.kind = "table"
    /\ Len(live_fin.rows) = MinRows - 1
    /\ ~status_fin
    /\ status_clima
    /\ toasts = {"Financeiro: Modo Simulacao"}

Days(t) == {Date(t[i].ts) : i \in 1..Len(t)}
RowsOnDay(t, d) == {i \in 1..Len(t) : Date(t[i].ts) = d}
SourceLabels == Labels(df_fin) \cup Labels(df_clima)
FinanceColumns == {"Dolar", "JBS", "Boi_Gordo"}

\* cell c of row r is the value the source row s has, when s has one
Carries(r, s, c) == s[c] # NaN => r[c] = s[c]

\* C2: the merge aligns the two tables by calendar date.  df_full never holds
\* two rows for the same calendar day, and a row of a day on which both
\* tables have an entry holds that day's finance values and that day's
\* weather values, whichever of the sources are live or synthetic.
C2_MergeAlignsByDate ==
    (pc = "merged" /\ clean_ok = "done") =>
      /\ \A i, j \in 1..Len(df_full) :
           i # j => Date(df_full[i].ts) # Date(df_full[j].ts)
      /\ \A d \in Days(df_fin) \cap Days(df_clima) :
           \A i \in RowsOnDay(df_full, d) :
             /\ \E f \in RowsOnDay(df_fin, d) :
                  \A c \in FinanceColumns : Carries(df_full[i], df_fin[f], c)
             /\ \E w \in RowsOnDay(df_clima, d) :
                  Carries(df_full[i], df_clima[w], "Temp_Max")

\* C3: after the load-and-treat step no cell of df_full is missing, whether
\* the cleaning block completed or its except branch ran.
C3_NoMissingCell ==
    (pc = "merged" /\ clean_ok # "none") => \A i \in 1..Len(df_full) : ~HasMissing(df_full[i])

\* series col of table t has a known value at or before label x
KnownBy(t, col, x) == \E i \in 1..Len(t) : t[i].ts <= x /\ t[i][col] # NaN
AllKnownBy(x) ==
    /\ \A c \in FinanceColumns : KnownBy(df_fin, c, x)
    /\ KnownBy(df_clima, "Temp_Max", x)
\* the value of series col at the latest label <= x that has one
LatestKnown(t, col, x) ==
    LET at == {i \in 1..Len(t) : t[i].ts <= x /\ t[i][col] # NaN}
    IN t[CHOOSE i \in at : \A j \in at : t[j].ts <= t[i].ts][col]

\* C4 as stated: back-fill keeps every date of either source table in
\* df_full after cleaning.
C4_EveryDateKept ==
    (pc = "merged" /\ clean_ok = "done") => (Days(df_fin) \cup Days(df_clima)) \subseteq Days(df_full)

\* C4 as amended: the merge forward-fills only.  A label that lies before the
\* first known value of Dolar, JBS, Boi_Gordo or Temp_Max is dropped, not
\* back-filled: when the cleaning block completes df_full holds exactly the
\* labels of the two source tables at which each of those four series has a
\* known value at or before the label.
C4_ForwardFillOnly ==
    (pc = "merged" /\ clean_ok = "done") => Labels(df_full) = {x \in SourceLabels : AllKnownBy(x)}

\* a completed merge that lost rows at the start of the dataset
C4_Witness ==
    /\ pc = "merged"
    /\ clean_ok = "done"
    /\ Len(df_full) > 0
    /\ \E x \in SourceLabels : x \notin Labels(df_full) /\ x < MinLabel(df_full)

\* the rain of the row labelled x: the weather table's own value, 0 when the
\* weather table has no value for that label
RainAt(x) ==
    IF x \in Labels(df_clima) /\ RowAt(df_clima, x).Chuva_mm # NaN
    THEN RowAt(df_clima, x).Chuva_mm
    ELSE 0

\* C7 as stated: every weather label on or after the first finance
\* observation is kept, and on such a row the three finance columns hold the
\* values of the latest finance label at or before it; a missing Chuva_mm is 0.
C7_WeatherRowsKept ==
    (pc = "merged" /\ clean_ok = "done" /\ Len(df_fin) > 0) =>
      \A x \in Labels(df_clima) :
        x >= MinLabel(df_fin) =>
          /\ x \in Labels(df_full)
          /\ \A c \in FinanceColumns :
               KnownBy(df_fin, c, x) =>
                 RowAt(df_full, x)[c] = LatestKnown(df_fin, c, x)
          /\ RowAt(df_full, x).Chuva_mm = RainAt(x)

\* C7 as amended: when the cleaning block completes, every label of either
\* table at or after the first label by which Dolar, JBS, Boi_Gordo and
\* Temp_Max each have had a known value is kept; on every kept row each of
\* Dolar, JBS and Boi_Gordo equals the latest known (non-missing) value of
\* that column at or before the row's label, never a later one; a missing
\* Chuva_mm is 0, not a propagated value; and every removed row lies before
\* the first kept one.
C7_CleanedRows ==
    (pc = "merged" /\ clean_ok = "done") =>
      /\ \A x \in SourceLabels : AllKnownBy(x) => x \in Labels(df_full)
      /\ \A i \in 1..Len(df_full) :
           /\ \A c \in FinanceColumns :
                /\ KnownBy(df_fin, c, df_full[i].ts)
                /\ df_full[i][c] = LatestKnown(df_fin, c, df_full[i].ts)
           /\ df_full[i].Chuva_mm = RainAt(df_full[i].ts)
      /\ \A x \in SourceLabels \ Labels(df_full) :
           \A i \in 1..Len(df_full) : x < df_full[i].ts

\* a completed merge with a weekend row that carries Friday's prices, a row
\* whose missing rain became 0, and a missing price filled from the day before
C7_Witness ==
    /\ pc = "merged"
    /\ clean_ok = "done"
    /\ \E i \in 1..Len(df_full) :
         /\ df_full[i].ts \notin Labels(df_fin)
         /\ ~IsBusinessDay(Date(df_full[i].ts))
    /\ \E i \in 1..Len(df_full) :
         /\ df_full[i].ts \in Labels(df_clima)
         /\ RowAt(df_clima, df_full[i].ts).Chuva_mm = NaN
         /\ df_full[i].Chuva_mm = 0
    /\ \E i \in 1..Len(df_full) :
         /\ df_full[i].ts \in Labels(df_fin)
         /\ RowAt(df_fin, df_full[i].ts).Dolar = NaN
    /\ \E x \in SourceLabels : x \notin Labels(df_full)

\* what the script puts on the page after line 161
DisplayItems ==
    {"title", "metrics", "chart", "media_boi", "max_dolar", "dias_chuva",
     "radio", "boxplot", "scatter", "heatmap", "download_fin",
     "download_clima"}
\* the run has read the three date inputs
PeriodChosen == end_date_graph # NoDate
\* positions of the rows of df_full whose calendar date lies in the period
PeriodPositions ==
    {i \in 1..Len(df_full) :
       start_date_graph <= Date(df_full[i].ts) /\ Date(df_full[i].ts) <= end_date_graph}
\* the k-th smallest element of the set of positions P
KthOf(P, k) == CHOOSE i \in P : Cardinality({j \in P : j < i}) = k - 1

\* C5: the period filter gates the page.  With start later than end the run
\* shows the error and stops before any KPI, chart, summary or download button;
\* otherwise, when the filter has run, df_filtered is exactly the rows of
\* df_full whose calendar date d has start <= d <= end, in df_full's order,
\* and df_full is what the load-and-treat block left.
C5_FilterGate ==
    /\ (PeriodChosen /\ start_date_graph > end_date_graph) =>
         /\ pc \in {"sidebar", "stopped"}
         /\ shown \cap DisplayItems = {}
         /\ metrics = << >>
         /\ kpi_path = "none"
    /\ pc = "stopped" =>
         /\ "error" \in shown
         /\ start_date_graph > end_date_graph
    /\ pc \in {"filtered", "kpi", "metrics", "done"} =>
         start_date_graph <= end_date_graph
    /\ pc = "filtered" =>
         /\ Len(df_filtered) = Cardinality(PeriodPositions)
         /\ \A k \in 1..Len(df_filtered) :
              df_filtered[k] = df_full[KthOf(PeriodPositions, k)]
         /\ df_full = LoadAndTreat(df_fin, df_clima).df

\* a filter over a period the user has shortened at its end, which kept
\* some rows of df_full and dropped rows before and after them
C5_Witness ==
    /\ pc = "filtered"
    /\ min_date < start_date_graph
    /\ end_date_graph < max_date
    /\ Len(df_filtered) > 0
    /\ df_filtered[1] # df_full[1]
    /\ df_filtered[Len(df_filtered)] # df_full[Len(df_full)]

C6_State ==
    /\ fin_body_runs <= 1
    /\ clima_body_runs <= 1
    /\ pc = "merged" => df_full = LoadAndTreat(df_fin, df_clima).df
    /\ pc # "start" =>
         /\ cache_fin # None
         /\ df_fin = cache_fin.df
         /\ status_fin = cache_fin.status
    /\ pc \notin {"start", "fin"} =>
         /\ cache_clima # None
         /\ df_clima = cache_clima.df
         /\ status_clima = cache_clima.status
    /\ pc = "filtered" =>
         df_filtered = FilterRows(df_full, start_date_graph, end_date_graph)
    /\ pc = "kpi" =>
         dia_dados = KpiRows(df_full, selected_date).dia_dados
C6_Step ==
    /\ cache_fin # None => cache_fin' = cache_fin
    /\ cache_clima # None => cache_clima' = cache_clima
    /\ fin_body_runs' # fin_body_runs => cache_fin = None
    /\ clima_body_runs' # clima_body_runs => cache_clima = None
    /\ pc' = "start" =>
         /\ clean_ok' = "none"
         /\ df_full' = << >>
         /\ df_filtered' = << >>
         /\ kpi_path' = "none"
    /\ (clean_ok = "none" /\ clean_ok' # "none") =>
         df_full' = LoadAndTreat(df_fin', df_clima').df

\* C6: across reruns nothing of the merge, the filter or the KPI rows is
\* carried over: every run that gets that far computes them anew from the
\* tables it received, while the body of each fetch function runs at most
\* once: a stored (table, status) pair never changes and every later run
\* receives it.  A fetch that fell back to synthetic data is never retried.
C6_CachedFetch == []C6_State /\ [][C6_Step]_vars

\* a later run that merged again: it received the synthetic finance table
\* an earlier run had built, and neither body ran in it
C6_Witness ==
    /\ pc = "merged"
    /\ clean_ok = "done"
    /\ live_fin = None
    /\ live_clima = None
    /\ fin_body_runs = 1
    /\ clima_body_runs = 1
    /\ ~status_fin
    /\ status_clima

\* C8: for every focus date the picker allows, dia_dados is the row of df_full
\* with the latest label at or before the selected date and dia_anterior the
\* row before it, or dia_dados itself when it is the first row.
C8_KpiRowOfFocusDate ==
    (pc = "kpi" /\ min_date <= selected_date /\ selected_date <= max_date) =>
      LET at == {i \in 1..Len(df_full) : Date(df_full[i].ts) <= selected_date}
          last == CHOOSE i \in at : \A j \in at : j <= i
      IN /\ at # {}
         /\ dia_dados = df_full[last]
         /\ dia_anterior = IF last > 1 THEN df_full[last - 1] ELSE dia_dados

\* C9: the KPI step is total.  Whatever df_full the load-and-treat block
\* produced, the empty table and a single row included, the step obtains
\* dia_dados and dia_anterior without an uncaught error.
C9_KpiTotal ==
    kpi_path # "none" =>
      /\ pc # "crashed" \/ metrics # << >>
      /\ dia_dados # None
      /\ dia_anterior # None

====
